---- MODULE Spec2Model ----
(***************************************************************************)
(* Model of opensora/models/diffusion/dit/dit.py: the DiT backbone.        *)
(*                                                                         *)
(* Tensors are modelled by their shapes (sequences of naturals) and, where *)
(* a claim is about values, by representative entries.  Python exceptions  *)
(* are modelled by the name of the exception class that is raised and the  *)
(* place in the code that raises it.                                       *)
(***************************************************************************)
EXTENDS Integers, Sequences, FiniteSets, TLC

VARIABLES
    imports,    \* module level: which optional kernels were imported (lines 23-33)
    pc,         \* position of the (single) caller
    cfg,        \* constructor arguments of the DiT object
    attrs,      \* instance attributes of the DiT object written after __init__ args
    params,     \* how every parameter tensor of the object was last initialised
    call,       \* locals of the forward call in flight
    res,        \* what the last call returned or raised
    y_embedder, \* a LabelEmbedder object
    ycall       \* the last call of LabelEmbedder.forward

vars == <<imports, pc, cfg, attrs, params, call, res, y_embedder, ycall>>

(***************************************************************************)
(* Bounds of the model.                                                    *)
(***************************************************************************)
MaxBatch == 2
MaxFrames == 2
MaxDepth == 2
MaxRank == 6
MaxChannels == 2
MaxClasses == 2
MaxLabels == 2
ProbRes == 2

(***************************************************************************)
(* Program constants.                                                      *)
(***************************************************************************)
\* torch.where(attn_mask == 0, -1e8, attn_mask), line 132
NegLarge == -100000000

\* the exception classes the code can raise
NotImplementedError == "NotImplementedError"
AssertionError == "AssertionError"
ValueError == "ValueError"
RuntimeError == "RuntimeError"
TypeError == "TypeError"
NameError == "NameError"
AttributeError == "AttributeError"
EinopsError == "EinopsError"
NoError == "none"

\* attention_mode strings tested by Attention.forward, lines 94-125
AttentionModes == {"xformers", "flash", "math", "rebased", "ring", "other"}
SupportedModes == {"xformers", "flash", "math", "rebased", "ring"}
PeModes == {"2d_rope", "none"}

(***************************************************************************)
(* Shape arithmetic.                                                       *)
(***************************************************************************)
\* int(n ** 0.5), lines 326 and 363
Isqrt(n) == CHOOSE h \in 0..n : h * h <= n /\ (h + 1) * (h + 1) > n

Max(a, b) == IF a >= b THEN a ELSE b

\* torch broadcasting of one dimension of two operands
Broadcastable(a, b) == a = b \/ a = 1 \/ b = 1

(***************************************************************************)
(* Construction: DiT.__init__ and initialize_weights.                      *)
(***************************************************************************)
\* the object before __init__ has run
NoCfg ==
    [input_size |-> 0, patch_size |-> 0, patch_size_t |-> 0, in_channels |-> 0,
     hidden_size |-> 0, depth |-> 0, num_heads |-> 0, num_frames |-> 0,
     learn_sigma |-> FALSE, extras |-> 0,
     attention_mode |-> "", attention_pe_mode |-> ""]

NoAttrs == [out_channels |-> 0, num_patches |-> 0, t |-> 0]

\* parameter tensors as torch constructs them, before initialize_weights:
\* nn.Linear / nn.Conv2d / nn.Embedding draw their own random values,
\* pos_embed and temp_embed are torch.zeros (lines 305-306)
DefaultParams(c) ==
    [linear_w |-> "default", linear_b |-> "default",
     t_mlp_w |-> "default", t_mlp_b |-> "default",
     y_table |-> IF c.extras = 2 THEN "default" ELSE "absent",
     patch_w |-> "default", patch_b |-> "default",
     pos_embed |-> "zero", temp_embed |-> "zero",
     block_ada_w |-> [i \in 1..c.depth |-> "default"],
     block_ada_b |-> [i \in 1..c.depth |-> "default"],
     final_ada_w |-> "default", final_ada_b |-> "default",
     final_lin_w |-> "default", final_lin_b |-> "default"]

NoParams == DefaultParams(NoCfg)

\* self.apply(_basic_init): every nn.Linear gets Xavier weights and zero bias
BasicInit(p) ==
    [p EXCEPT !.linear_w = "xavier", !.linear_b = "zero",
              !.t_mlp_w = "xavier", !.t_mlp_b = "zero",
              !.block_ada_w = [i \in DOMAIN p.block_ada_w |-> "xavier"],
              !.block_ada_b = [i \in DOMAIN p.block_ada_b |-> "zero"],
              !.final_ada_w = "xavier", !.final_ada_b = "zero",
              !.final_lin_w = "xavier", !.final_lin_b = "zero"]

PosEmbedInit(p) == [p EXCEPT !.pos_embed = "sincos"]

TempEmbedInit(p) == [p EXCEPT !.temp_embed = "sincos"]

PatchEmbedInit(p) == [p EXCEPT !.patch_w = "xavier", !.patch_b = "zero"]

LabelInit(p) == IF p.y_table = "absent" THEN p ELSE [p EXCEPT !.y_table = "normal"]

TimestepInit(p) == [p EXCEPT !.t_mlp_w = "normal"]

ZeroAdaLN(p) ==
    [p EXCEPT !.block_ada_w = [i \in DOMAIN p.block_ada_w |-> "zero"],
              !.block_ada_b = [i \in DOMAIN p.block_ada_b |-> "zero"]]

ZeroOutputLayers(p) ==
    [p EXCEPT !.final_ada_w = "zero", !.final_ada_b = "zero",
              !.final_lin_w = "zero", !.final_lin_b = "zero"]

\* a plausible slip: the Xavier pass over every linear layer runs last
InitializeWeightsXavierLast(p) ==
    BasicInit(ZeroOutputLayers(ZeroAdaLN(TimestepInit(LabelInit(
        PatchEmbedInit(TempEmbedInit(PosEmbedInit(p))))))))

\* initialize_weights, in the order of the code
InitializeWeights(p) ==
    ZeroOutputLayers(ZeroAdaLN(TimestepInit(LabelInit(
        PatchEmbedInit(TempEmbedInit(PosEmbedInit(BasicInit(p))))))))

\* a plausible slip: the head check of Attention.__init__ is missing
AttentionInitErrorNoCheck(dim, num_heads) == NoError

\* Attention.__init__: assert dim % num_heads == 0
AttentionInitError(dim, num_heads) ==
    IF dim % num_heads # 0 THEN AssertionError ELSE NoError

\* get_1d_sincos_pos_embed_from_grid: assert embed_dim % 2 == 0
SinCos1dError(embed_dim) ==
    IF embed_dim % 2 # 0 THEN AssertionError ELSE NoError

\* get_2d_sincos_pos_embed_from_grid: assert embed_dim % 2 == 0, then the 1-D
\* table of each axis over embed_dim // 2
SinCos2dError(embed_dim) ==
    IF embed_dim % 2 # 0 THEN AssertionError ELSE SinCos1dError(embed_dim \div 2)

\* the exception DiT.__init__ ends with, and where; NoError when it completes.
\* The blocks (and their Attention) are built first, one per unit of depth,
\* then initialize_weights computes the two tables.
ConstructError(c) ==
    IF c.depth > 0 /\ AttentionInitError(c.hidden_size, c.num_heads) # NoError
    THEN [err |-> AttentionInitError(c.hidden_size, c.num_heads), at |-> "Attention.__init__"]
    ELSE IF SinCos2dError(c.hidden_size) # NoError
    THEN [err |-> SinCos2dError(c.hidden_size), at |-> "pos_embed"]
    ELSE IF SinCos1dError(c.hidden_size) # NoError
    THEN [err |-> SinCos1dError(c.hidden_size), at |-> "temp_embed"]
    ELSE [err |-> NoError, at |-> ""]

\* self.out_channels = in_channels * 2 if learn_sigma else in_channels
OutChannels(c) == IF c.learn_sigma THEN c.in_channels * 2 ELSE c.in_channels

\* PatchEmbed(input_size, patch_size, ...).num_patches: a square grid
NumPatches(c) == (c.input_size \div c.patch_size) * (c.input_size \div c.patch_size)

NoCall ==
    [rank |-> 0, B |-> 0, T |-> 0, x |-> <<>>, mask |-> <<>>, valid |-> 0,
     c |-> <<>>, cv |-> 0, xin |-> 0, xv |-> 0, blk |-> 0, bias |-> <<>>,
     guided |-> FALSE, cfg_scale |-> 0, rope_q |-> <<>>, rope_k |-> <<>>, rope_v |-> <<>>]

NoRes == [status |-> "none", err |-> NoError, at |-> "", shape |-> <<>>, out |-> <<>>]

Raised(kind, where) == [NoRes EXCEPT !.status = "raised", !.err = kind, !.at = where]

Returned(shape) == [NoRes EXCEPT !.status = "returned", !.shape = shape]

\* DiT(**c): either the object exists afterwards or __init__ raised
Construct(Cfgs) ==
    /\ pc = "unbuilt"
    /\ \E c \in Cfgs :
        LET e == ConstructError(c) IN
        IF e.err # NoError
        THEN /\ pc' = "construct_failed"
             /\ res' = Raised(e.err, e.at)
             /\ cfg' = c
             /\ UNCHANGED <<attrs, params>>
        ELSE /\ pc' = "ready"
             /\ cfg' = c
             /\ attrs' = [out_channels |-> OutChannels(c),
                          num_patches |-> NumPatches(c), t |-> 0]
             /\ params' = InitializeWeights(DefaultParams(c))
             /\ res' = NoRes
    /\ UNCHANGED <<y_embedder, ycall, imports, call>>

(***************************************************************************)
(* DiT.forward, step by step.  Each step is a run of statements that reads *)
(* self.t at most once, so that calls could be interleaved between steps.  *)
(***************************************************************************)
\* the tensor a caller passes as x: (B, T, C, H, W) when it has rank 5; for
\* any other rank only the rank is looked at before the call ends
InputShape(c, rank, B, T) ==
    IF rank = 5 THEN <<B, T, c.in_channels, c.input_size, c.input_size>>
    ELSE [i \in 1..rank |-> 1]

\* a plausible slip: the test names the wrong rank
RankErrorNdim3(rank) ==
    IF rank = 3 THEN [err |-> NotImplementedError, at |-> "rank"]
    ELSE IF rank # 5 THEN [err |-> ValueError, at |-> "unpack"]
    ELSE [err |-> NoError, at |-> ""]

\* the exception the head of forward raises (lines 390-393), NoError if none:
\* only rank 4 is tested; any other rank but 5 fails to unpack x.shape
RankError(rank) ==
    IF rank = 4 THEN [err |-> NotImplementedError, at |-> "rank"]
    ELSE IF rank # 5 THEN [err |-> ValueError, at |-> "unpack"]
    ELSE [err |-> NoError, at |-> ""]

\* make_mask on a (bs, t, h, w) mask: flatten(1), unsqueeze(-1), the outer
\* product with its own transpose, unsqueeze(1)
make_mask(m) ==
    LET n == m[2] * m[3] * m[4] IN <<m[1], 1, n, n>>

\* the flattened per-pixel mask of one sample: the first `valid` pixels are 1
MaskVector(valid, i) == IF i <= valid THEN 1 ELSE 0

\* entry [i, j] of the expanded mask: attention_mask @ attention_mask.transpose
MaskEntry(valid, i, j) == MaskVector(valid, i) * MaskVector(valid, j)

\* forward, lines 390-396: the rank test, the unpacking of x.shape, the write
\* of self.t and the expansion of the mask.  mk < 0 stands for
\* attention_mask=None, mk >= 0 for a mask with mk valid pixels per sample.
ForwardHead(guided, scale, rank, B, T, mk, xv) ==
    LET e == RankError(rank) IN
    IF e.err # NoError
    THEN /\ pc' = "failed"
         /\ res' = Raised(e.err, e.at)
         /\ call' = [NoCall EXCEPT !.rank = rank, !.guided = guided]
         /\ UNCHANGED attrs
    ELSE /\ pc' = "embed"
         /\ attrs' = [attrs EXCEPT !.t = T \div cfg.patch_size_t]
         /\ call' = [NoCall EXCEPT
                        !.rank = rank, !.B = B, !.T = T,
                        !.x = InputShape(cfg, rank, B, T),
                        !.mask = IF mk < 0 THEN <<>>
                                 ELSE make_mask(<<B, T, cfg.input_size, cfg.input_size>>),
                        !.valid = mk, !.xin = xv, !.xv = xv,
                        !.guided = guided, !.cfg_scale = scale]
         /\ res' = NoRes

\* model.forward(x, t, y, attention_mask)
ForwardEnter(Ranks, Bs, Ts, Masks, Xvs) ==
    /\ pc = "ready"
    /\ \E rank \in Ranks, B \in Bs, T \in Ts, mk \in Masks, xv \in Xvs :
        /\ T % cfg.patch_size_t = 0
        /\ ForwardHead(FALSE, 0, rank, B, T, mk, xv)
    /\ UNCHANGED <<y_embedder, ycall, imports, cfg, params>>

\* lines 401-405.  x: (B, T, C, H, W); t is the value of self.t now.
EmbedResult(c, t, B, x) ==
    LET bt == x[1] * x[2]
        \* x_embedder: one token of width hidden_size per patch of a frame
        n  == (x[4] \div c.patch_size) * (x[5] \div c.patch_size)
    IN  IF n # NumPatches(c)
        THEN [err |-> RuntimeError, at |-> "pos_embed", x |-> <<>>]
        \* '(b t) n c -> (b n) t c', t=self.t
        ELSE IF t = 0 \/ bt % t # 0
        THEN [err |-> EinopsError, at |-> "rearrange_bn", x |-> <<>>]
        \* x + self.temp_embed, a (1, num_frames, hidden) table
        ELSE IF ~Broadcastable(t, c.num_frames)
        THEN [err |-> RuntimeError, at |-> "temp_embed", x |-> <<>>]
        \* '(b n) t c -> b (t n) c', b=B
        ELSE LET bn == (bt \div t) * n
                 tt == Max(t, c.num_frames)
             IN  IF bn % B # 0
                 THEN [err |-> EinopsError, at |-> "rearrange_tn", x |-> <<>>]
                 ELSE [err |-> NoError, at |-> "",
                       x |-> <<B, tt * (bn \div B), c.hidden_size>>]

Embed ==
    /\ pc = "embed"
    /\ LET r == EmbedResult(cfg, attrs.t, call.B, call.x) IN
        IF r.err # NoError
        THEN /\ pc' = "failed"
             /\ res' = Raised(r.err, r.at)
             /\ UNCHANGED call
        ELSE /\ pc' = "cond"
             /\ call' = [call EXCEPT !.x = r.x]
             /\ UNCHANGED res
    /\ UNCHANGED <<y_embedder, ycall, imports, cfg, attrs, params>>

\* lines 407-412: c = t_embedder(t) [+ y_embedder(y, self.training)], a
\* (B, hidden) tensor whose values the learned embedders decide
Cond(CondVals) ==
    /\ pc = "cond"
    /\ \E cv \in CondVals :
        call' = [call EXCEPT !.c = <<call.B, cfg.hidden_size>>, !.cv = cv, !.blk = 0]
    /\ pc' = "blocks"
    /\ UNCHANGED <<y_embedder, ycall, imports, cfg, attrs, params, res>>

(***************************************************************************)
(* Attention.forward and DiTBlock.forward.                                 *)
(***************************************************************************)
\* make_attn_bias applied to one entry of the mask, lines 132-133
make_attn_bias(m) ==
    LET attn_bias == IF m = 0 THEN NegLarge ELSE m
    IN  IF m = 1 THEN 0 ELSE attn_bias

\* F.scaled_dot_product_attention(q, k, v, attn_mask=attn_mask) with the mask
\* cast to q.dtype on line 83: a floating-point attn_mask is added to the
\* scores as it is
SdpaBias(m) == m

\* what is added to the score of a valid (mask 1) and of an invalid (mask 0)
\* pair under each mode that reads the mask; <<>> without a mask
BiasPair(mode, mask) ==
    IF mask = <<>> THEN <<>>
    ELSE IF mode = "math" THEN <<make_attn_bias(1), make_attn_bias(0)>>
    ELSE <<SdpaBias(1), SdpaBias(0)>>

\* Attention.forward on x: (B, N, C) with the expanded mask (B, 1, M, M) or
\* <<>>: the exception it raises and where, or the bias it applied
AttentionResult(c, imp, x, mask) ==
    LET N == x[2]
        M == IF mask = <<>> THEN N ELSE mask[3]
        fits == M = N \/ M = 1
    IN  \* q.view(B, heads, -1, hw[0] * hw[1], head_dim), hw = input_size
        IF c.attention_pe_mode = "2d_rope" /\ N % (c.input_size * c.input_size) # 0
        THEN [err |-> RuntimeError, at |-> "rope_view", bias |-> <<>>]
        ELSE IF c.attention_mode \in {"xformers", "flash"}
        THEN IF fits
             THEN [err |-> NoError, at |-> "", bias |-> BiasPair(c.attention_mode, mask)]
             ELSE [err |-> RuntimeError, at |-> "sdpa_mask", bias |-> <<>>]
        ELSE IF c.attention_mode = "math"
        \* attn + attn_bias broadcasts, then attn @ v needs N columns
        THEN IF fits
             THEN [err |-> NoError, at |-> "", bias |-> BiasPair(c.attention_mode, mask)]
             ELSE [err |-> RuntimeError, at |-> "attn_bias", bias |-> <<>>]
        \* parallel_rebased is an unbound name when the import failed;
        \* self.eps is set nowhere
        ELSE IF c.attention_mode = "rebased"
        THEN [err |-> IF imp.rebased THEN AttributeError ELSE NameError,
              at |-> "dispatch", bias |-> <<>>]
        \* likewise ring_flash_attn_cuda, self.causal, self.ring_bucket_size
        ELSE IF c.attention_mode = "ring"
        THEN [err |-> IF imp.ring THEN AttributeError ELSE NameError,
              at |-> "dispatch", bias |-> <<>>]
        \* raise NotImplemented: not an exception, so Python raises TypeError
        ELSE [err |-> TypeError, at |-> "dispatch", bias |-> <<>>]

\* self.rope(q_t) on q_t: (B, heads, G, P, head_dim): the row of the rotary
\* table that rotates entry (g, i) of the two axes before the last.  The
\* table has one row per position of the grid it was built for and is
\* broadcast across the leading axes.
RopeRows(G, P) == [e \in (0..(G - 1)) \X (0..(P - 1)) |-> e[2]]

\* q.view(B, heads, -1, hw[0] * hw[1], head_dim) on the contiguous q:
\* (B, heads, N, head_dim), hw = input_size: where token s (from 0) lands
RopeView(c, s) ==
    LET P == c.input_size * c.input_size IN <<s \div P, s % P>>

\* lines 85-92: the table row that rotates the query and the key of every
\* token of x: (B, N, C) in 2d_rope mode; v is passed on as it is
RotaryRows(c, x) ==
    LET N == x[2]
        P == c.input_size * c.input_size
        rows == RopeRows(N \div P, P)
    IN  IF c.attention_pe_mode = "2d_rope"
        THEN [s \in 1..N |-> rows[RopeView(c, s - 1)]]
        ELSE <<>>

\* a representative entry of a parameter tensor: 0 when it was zeroed,
\* else some non-zero number
Val(kind) == IF kind = "zero" THEN 0 ELSE 1

\* SiLU(c) = c * sigmoid(c), in thousandths
SiLU(c) ==
    CASE c = -2 -> -238
      [] c = -1 -> -269
      [] c = 0 -> 0
      [] c = 1 -> 731
      [] c = 2 -> 1762

\* one chunk of adaLN_modulation(c) = Linear(SiLU(c)) of block i, in thousandths
Modulation(p, i, cv) == Val(p.block_ada_w[i]) * SiLU(cv) + Val(p.block_ada_b[i]) * 1000

\* DiTBlock.forward on one entry xv (thousandths) of x: the two gated
\* residual adds, a and m being the entries the attention and the MLP return
BlockForward(p, i, cv, xv, a, m) ==
    LET gate_msa == Modulation(p, i, cv)
        gate_mlp == Modulation(p, i, cv)
        x1 == xv + gate_msa * a
    IN  x1 + gate_mlp * m

\* for block in self.blocks: x = block(x, c, attention_mask)
Block(SubOuts) ==
    /\ pc = "blocks"
    /\ call.blk < cfg.depth
    /\ LET r == AttentionResult(cfg, imports, call.x, call.mask) IN
        IF r.err # NoError
        THEN /\ pc' = "failed"
             /\ res' = Raised(r.err, r.at)
             /\ UNCHANGED call
        ELSE /\ \E a \in SubOuts, m \in SubOuts :
                call' = [call EXCEPT
                            !.blk = call.blk + 1, !.bias = r.bias, !.xin = call.xv,
                            !.rope_q = RotaryRows(cfg, call.x),
                            !.rope_k = RotaryRows(cfg, call.x),
                            !.xv = BlockForward(params, call.blk + 1, call.cv, call.xv, a, m)]
             /\ UNCHANGED <<pc, res>>
    /\ UNCHANGED <<y_embedder, ycall, imports, cfg, attrs, params>>

(***************************************************************************)
(* The tail of forward: final layer and unpatchify (lines 419-424).        *)
(***************************************************************************)
\* unpatchify on x: (N, n, width): the exception it raises or the images
unpatchify(c, oc, x) ==
    LET p == c.patch_size
        h == Isqrt(x[2])
    IN  \* assert h * w == x.shape[1]
        IF h * h # x[2]
        THEN [err |-> AssertionError, at |-> "unpatchify_assert", x |-> <<>>]
        \* x.reshape(shape=(x.shape[0], h, w, p, p, c)) keeps the element count
        ELSE IF x[1] * x[2] * x[3] # x[1] * h * h * p * p * oc
        THEN [err |-> RuntimeError, at |-> "unpatchify_reshape", x |-> <<>>]
        ELSE [err |-> NoError, at |-> "", x |-> <<x[1], oc, h * p, h * p>>]

\* lines 419-423 on x: (B, L, hidden); t is the value of self.t now
FinalResult(c, oc, t, x) ==
    \* 'b (t n) c -> (b t) n c', t=self.t
    IF t = 0 \/ x[2] % t # 0
    THEN [err |-> EinopsError, at |-> "rearrange_bt", x |-> <<>>]
    ELSE LET \* final_layer: Linear(hidden, patch_size_t * patch_size ** 2 * out_channels)
             y == <<x[1] * t, x[2] \div t,
                    c.patch_size_t * c.patch_size * c.patch_size * oc>>
             u == unpatchify(c, oc, y)
         IN  IF u.err # NoError THEN u
             \* '(b t) c h w -> b t c h w', t=self.t
             ELSE IF u.x[1] % t # 0
             THEN [err |-> EinopsError, at |-> "rearrange_out", x |-> <<>>]
             ELSE [err |-> NoError, at |-> "",
                   x |-> <<u.x[1] \div t, t, u.x[2], u.x[3], u.x[4]>>]

Final ==
    /\ pc = "blocks"
    /\ call.blk = cfg.depth
    /\ LET r == FinalResult(cfg, attrs.out_channels, attrs.t, call.x) IN
        IF r.err # NoError
        THEN /\ pc' = "failed"
             /\ res' = Raised(r.err, r.at)
        ELSE /\ pc' = IF call.guided THEN "cfg" ELSE "done"
             /\ res' = Returned(r.x)
    /\ UNCHANGED <<y_embedder, ycall, imports, cfg, attrs, params, call>>

(***************************************************************************)
(* forward_with_cfg (lines 426-442).                                       *)
(***************************************************************************)
\* entry [b, i, j] of model_out, counted along its first three axes: what
\* the trained network returns, different at every place
RawOut(seed, b, i, j) == seed + 100 * b + 10 * i + j

\* half_eps = uncond_eps + cfg_scale * (cond_eps - uncond_eps) at sample k of
\* a half, cond being the first half of the batch and uncond the second
HalfEps(seed, half, scale, k, i, j) ==
    LET cond_eps == RawOut(seed, k, i, j)
        uncond_eps == RawOut(seed, half + k, i, j)
    IN  uncond_eps + scale * (cond_eps - uncond_eps)

\* lines 437-442 on model_out of shape s: eps and rest are cut along axis 1
\* at self.in_channels, eps is split in two along axis 0, blended, doubled
\* and joined with rest along axis 1
GuidedOut(c, seed, scale, s) ==
    LET half == s[1] \div 2 IN
    [e \in (1..s[1]) \X (1..s[2]) \X (1..s[3]) |->
        IF e[2] <= c.in_channels
        THEN HalfEps(seed, half, scale, ((e[1] - 1) % half) + 1, e[2], e[3])
        ELSE RawOut(seed, e[1], e[2], e[3])]

\* model.forward_with_cfg(x, t, y, cfg_scale, attention_mask): half is the
\* first len(x) // 2 samples, combined repeats it, then forward runs.  The
\* batch is one of conditional / unconditional pairs, so of even size.
CfgEnter(Bs, Ts, Masks, Xvs, Scales) ==
    /\ pc = "ready"
    /\ \E B \in Bs, T \in Ts, mk \in Masks, xv \in Xvs, scale \in Scales :
        /\ T % cfg.patch_size_t = 0
        /\ B % 2 = 0
        /\ ForwardHead(TRUE, scale, 5, 2 * (B \div 2), T, mk, xv)
    /\ UNCHANGED <<y_embedder, ycall, imports, cfg, params>>

CfgFinish ==
    /\ pc = "cfg"
    /\ pc' = "done"
    /\ res' = [res EXCEPT !.out = GuidedOut(cfg, call.xv, call.cfg_scale, res.shape)]
    /\ UNCHANGED <<y_embedder, ycall, imports, cfg, attrs, params, call>>

\* the caller has the result or the exception; the object stays as it is
Return ==
    /\ pc \in {"done", "failed"}
    /\ pc' = "ready"
    /\ call' = NoCall
    /\ res' = NoRes
    /\ UNCHANGED <<y_embedder, ycall, imports, cfg, attrs, params>>

\* another forward call on the same model, with another T, that runs its
\* line 394 while this call is between two of its steps.  Of all it does
\* only that write touches what this call reads.
OtherForward(Ts) ==
    /\ pc \in {"embed", "cond", "blocks"}
    /\ \E T \in Ts :
        /\ T % cfg.patch_size_t = 0
        /\ T # call.T
        /\ attrs' = [attrs EXCEPT !.t = T \div cfg.patch_size_t]
    /\ UNCHANGED <<y_embedder, ycall, imports, cfg, params, pc, call, res>>

\* what forward returns or raises for a rank-5 x of (B, T, ...) when no other
\* call runs on the model: lines 393-424 with t = T // patch_size_t throughout
AloneResult(c, imp, B, T, mask) ==
    LET t == T \div c.patch_size_t
        e == EmbedResult(c, t, B, InputShape(c, 5, B, T))
    IN  IF e.err # NoError THEN Raised(e.err, e.at)
        ELSE LET a == AttentionResult(c, imp, e.x, mask)
                 f == FinalResult(c, OutChannels(c), t, e.x)
             IN  IF c.depth > 0 /\ a.err # NoError THEN Raised(a.err, a.at)
                 ELSE IF f.err # NoError THEN Raised(f.err, f.at)
                 ELSE Returned(f.x)

(***************************************************************************)
(* LabelEmbedder (lines 184-211), a component with its own state.          *)
(* Probabilities are counted in units of 1 / ProbRes: dropout_prob is one  *)
(* of 0 .. ProbRes and a draw of torch.rand, uniform on [0, 1), one of     *)
(* 0 .. ProbRes - 1.                                                       *)
(***************************************************************************)
NoEmbedder == [built |-> FALSE, num_classes |-> 0, dropout_prob |-> 0, rows |-> 0]

NoYCall ==
    [status |-> "none", labels |-> <<>>, train |-> FALSE, force |-> <<>>,
     draws |-> <<>>, ids |-> <<>>, err |-> NoError]

\* LabelEmbedder.__init__: nn.Embedding(num_classes + use_cfg_embedding, hidden)
LabelEmbedderInit(num_classes, dropout_prob) ==
    LET use_cfg_embedding == IF dropout_prob > 0 THEN 1 ELSE 0
    IN  [built |-> TRUE, num_classes |-> num_classes, dropout_prob |-> dropout_prob,
         rows |-> num_classes + use_cfg_embedding]

\* a plausible slip: drop_ids = torch.rand(...) <= self.dropout_prob
token_drop_le(e, labels, force, draws) ==
    LET drop_ids == [i \in DOMAIN labels |->
                        IF force = <<>> THEN draws[i] <= e.dropout_prob ELSE force[i] = 1]
    IN  [i \in DOMAIN labels |-> IF drop_ids[i] THEN e.num_classes ELSE labels[i]]

\* token_drop; force = <<>> stands for force_drop_ids=None, draws are the
\* values torch.rand returns
token_drop(e, labels, force, draws) ==
    LET drop_ids == [i \in DOMAIN labels |->
                        IF force = <<>> THEN draws[i] < e.dropout_prob ELSE force[i] = 1]
    IN  [i \in DOMAIN labels |-> IF drop_ids[i] THEN e.num_classes ELSE labels[i]]

\* the ids LabelEmbedder.forward hands to self.embedding_table
ForwardIds(e, labels, train, force, draws) ==
    LET use_dropout == e.dropout_prob > 0
    IN  IF (train /\ use_dropout) \/ force # <<>>
        THEN token_drop(e, labels, force, draws)
        ELSE labels

\* nn.Embedding raises IndexError for an id that is no row of the table
EmbeddingError(e, ids) ==
    IF \E i \in DOMAIN ids : ids[i] >= e.rows THEN "IndexError" ELSE NoError

\* LabelEmbedder(num_classes, hidden_size, dropout_prob)
LabelConstruct ==
    /\ ~y_embedder.built
    /\ \E n \in 1..MaxClasses, dp \in 0..ProbRes :
        y_embedder' = LabelEmbedderInit(n, dp)
    /\ UNCHANGED <<ycall, imports, pc, cfg, attrs, params, call, res>>

\* the sequences of length n over S
Seqs(S, n) == [1..n -> S]

\* y_embedder(labels, train, force_drop_ids) on labels in [0, num_classes)
LabelForward ==
    /\ y_embedder.built
    /\ ycall.status = "none"
    /\ \E n \in 1..MaxLabels :
       \E labels \in Seqs(0..(y_embedder.num_classes - 1), n), train \in BOOLEAN,
          force \in Seqs(0..1, n) \cup {<<>>}, draws \in Seqs(0..(ProbRes - 1), n) :
            LET ids == ForwardIds(y_embedder, labels, train, force, draws)
                e == EmbeddingError(y_embedder, ids)
            IN  ycall' = [status |-> IF e = NoError THEN "returned" ELSE "raised",
                          labels |-> labels, train |-> train, force |-> force,
                          draws |-> draws, ids |-> ids, err |-> e]
    /\ UNCHANGED <<y_embedder, imports, pc, cfg, attrs, params, call, res>>

LabelReturn ==
    /\ ycall.status # "none"
    /\ ycall' = NoYCall
    /\ UNCHANGED <<y_embedder, imports, pc, cfg, attrs, params, call, res>>

(***************************************************************************)
(* Specifications.  They share the actions and differ in the constructor   *)
(* arguments and call arguments they range over.                           *)
(***************************************************************************)
\* (input_size, patch_size) pairs, patch_size dividing input_size
Sizes == {<<2, 1>>, <<2, 2>>, <<4, 2>>}

Configs(Sz, Pts, Ics, Sigmas, Frames, Hiddens, Heads, Depths, Modes, Pes) ==
    {[input_size |-> sp[1], patch_size |-> sp[2], patch_size_t |-> pt,
      in_channels |-> ic, hidden_size |-> hs, depth |-> d, num_heads |-> nh,
      num_frames |-> nf, learn_sigma |-> ls, extras |-> 1,
      attention_mode |-> am, attention_pe_mode |-> pe] :
        sp \in Sz, pt \in Pts, ic \in Ics, hs \in Hiddens,
        d \in Depths, nh \in Heads, nf \in Frames, ls \in Sigmas,
        am \in Modes, pe \in Pes}

InitWith(Imports) ==
    /\ imports \in Imports
    /\ pc = "unbuilt"
    /\ cfg = NoCfg
    /\ attrs = NoAttrs
    /\ params = NoParams
    /\ call = NoCall
    /\ res = NoRes
    /\ y_embedder = NoEmbedder
    /\ ycall = NoYCall

AllImports == [rebased : BOOLEAN, ring : BOOLEAN]

NoImports == {[rebased |-> FALSE, ring |-> FALSE]}

\* Shapes: every size, patch size and frame count, one backend.
Init == InitWith(NoImports)

Next ==
    \/ Construct(Configs(Sizes, 1..2, 1..MaxChannels, BOOLEAN, 1..MaxFrames,
                         {4}, {2}, 1..MaxDepth, {"math"}, PeModes))
    \/ ForwardEnter(0..MaxRank, 1..MaxBatch, 1..MaxFrames, -1..1, {500})
    \/ CfgEnter(1..MaxBatch, 1..MaxFrames, {-1}, {500}, 2..3)
    \/ Embed
    \/ Cond({1})
    \/ Block({1})
    \/ Final
    \/ CfgFinish
    \/ Return

Spec == Init /\ [][Next]_vars

\* Backends: every attention mode and import outcome, masks, one patch size.
InitBackend == InitWith(AllImports)

NextBackend ==
    \/ Construct(Configs({<<2, 1>>}, {1}, {1}, {FALSE}, 1..MaxFrames,
                         {4}, {2}, 1..MaxDepth, AttentionModes, PeModes))
    \/ ForwardEnter({5}, 1..MaxBatch, 1..MaxFrames, -1..2, {500})
    \/ Embed
    \/ Cond({1})
    \/ Block({1})
    \/ Final
    \/ Return

SpecBackend == InitBackend /\ [][NextBackend]_vars

\* Construction: every hidden size and head count, and the values that flow
\* through the blocks of a freshly constructed model.
Hiddens == {3, 4, 6, 8}

NextInit ==
    \/ Construct(Configs({<<2, 1>>}, {1}, {1}, {FALSE}, {1},
                         Hiddens, 1..3, 0..MaxDepth, {"math"}, PeModes))
    \/ ForwardEnter({5}, {1}, 1..MaxFrames, -1..0, {-500, 1500})
    \/ Embed
    \/ Cond({-1, 0, 2})
    \/ Block({-1, 2})
    \/ Final
    \/ Return

SpecInit == Init /\ [][NextInit]_vars

\* The label embedder alone.
NextLabel ==
    \/ LabelConstruct
    \/ LabelForward
    \/ LabelReturn

SpecLabel == Init /\ [][NextLabel]_vars

\* Two callers: a forward call and the line-394 write of a second one.
NextInterleave ==
    \/ Construct(Configs(Sizes, 1..2, {1}, {FALSE}, 1..MaxFrames,
                         {4}, {2}, 1..MaxDepth, {"math"}, PeModes))
    \/ ForwardEnter({5}, 1..MaxBatch, 1..MaxFrames, {-1}, {500})
    \/ OtherForward(1..MaxFrames)
    \/ Embed
    \/ Cond({1})
    \/ Block({1})
    \/ Final
    \/ Return

SpecInterleave == Init /\ [][NextInterleave]_vars

\* Rotary attention: frame counts at which the view of lines 86 and 90 works
\* for every size.
RopeFrames == {1, 2, 4}

NextRope ==
    \/ Construct(Configs(Sizes, {1}, {1}, {FALSE}, {1},
                         {4}, {2}, 1..MaxDepth, {"math"}, {"2d_rope"}))
    \/ ForwardEnter({5}, 1..MaxBatch, RopeFrames, {-1}, {500})
    \/ Embed
    \/ Cond({1})
    \/ Block({1})
    \/ Final
    \/ Return

SpecRope == Init /\ [][NextRope]_vars

(***************************************************************************)
(* The properties.                                                         *)
(***************************************************************************)
\* the error names of the specification and the exceptions that stand for
\* them in the code
UnsupportedShape == NotImplementedError
UnsupportedBackend == NotImplementedError
InvalidConfig == AssertionError

Built == pc \notin {"unbuilt", "construct_failed"}

Ended == pc \in {"done", "failed"}

\* (T / patch_size_t) * (H / patch_size) * (W / patch_size)
TokenSeq(c, T) ==
    (T \div c.patch_size_t) * (c.input_size \div c.patch_size) * (c.input_size \div c.patch_size)

\* C1: forward on a rank-5 x of shape (B, T, in_channels, H, W), H = W =
\* input_size and T the configured frame count, returns a tensor of shape
\* (B, T, out_channels, H, W), out_channels being 2 * in_channels with
\* learn_sigma and in_channels without.
C1_ForwardShape ==
    (Ended /\ ~call.guided /\ call.rank = 5 /\ call.T = cfg.num_frames /\ call.mask = <<>>)
        => /\ res.status = "returned"
           /\ res.shape = <<call.B, call.T,
                            IF cfg.learn_sigma THEN 2 * cfg.in_channels ELSE cfg.in_channels,
                            cfg.input_size, cfg.input_size>>

\* C2: forward_with_cfg returns, at every sample, frame and channel below
\* in_channels, uncond + cfg_scale * (cond - uncond) of the raw outputs of
\* the two halves at that frame and channel, and the raw output at every
\* channel from in_channels on.  An entry is (sample, frame, channel).
C2_GuidanceOnChannels ==
    (pc = "done" /\ call.guided)
        => \A e \in DOMAIN res.out :
            LET half == call.B \div 2
                k == ((e[1] - 1) % half) + 1
                cond == RawOut(call.xv, k, e[2], e[3])
                uncond == RawOut(call.xv, half + k, e[2], e[3])
            IN  IF e[3] <= cfg.in_channels
                THEN res.out[e] = uncond + call.cfg_scale * (cond - uncond)
                ELSE res.out[e] = RawOut(call.xv, e[1], e[2], e[3])

\* C3: in the output of forward_with_cfg every channel from in_channels on,
\* in both halves of the batch, is the raw output of the first half there.
C3_RestFromFirstHalf ==
    (pc = "done" /\ call.guided)
        => \A e \in DOMAIN res.out :
            e[3] > cfg.in_channels
                => res.out[e] = RawOut(call.xv, ((e[1] - 1) % (call.B \div 2)) + 1, e[2], e[3])

\* C4: whenever attention ran with a mask, under whatever mode, a valid pair
\* got bias 0 and an invalid pair the large negative constant.
C4_MaskIsAdditiveBias ==
    (call.mask # <<>> /\ call.blk > 0) => call.bias = <<0, NegLarge>>

\* C5: the expanded mask has shape (B, 1, seq, seq), seq being the length of
\* the token sequence, and is symmetric.
C5_MaskShape ==
    call.mask # <<>>
        => /\ call.mask = <<call.B, 1, TokenSeq(cfg, call.T), TokenSeq(cfg, call.T)>>
           /\ \A i, j \in 1..call.mask[3] :
                MaskEntry(call.valid, i, j) = MaskEntry(call.valid, j, i)

\* C6: a call that reaches the backend dispatch with an unknown mode, or
\* with a mode whose kernel was not imported, raises UnsupportedBackend.
C6_UnsupportedBackend ==
    LET unsupported ==
            \/ cfg.attention_mode \notin SupportedModes
            \/ cfg.attention_mode = "rebased" /\ ~imports.rebased
            \/ cfg.attention_mode = "ring" /\ ~imports.ring
    IN  (unsupported /\ Ended /\ (res.at = "dispatch" \/ call.blk > 0))
            => (res.status = "raised" /\ res.err = UnsupportedBackend)

\* C7 as stated: forward raises UnsupportedShape for every rank below 5.
C7_BelowFiveUnsupportedShape ==
    (pc = "failed" /\ call.rank < 5) => res.err = UnsupportedShape

\* C7 as amended: forward raises UnsupportedShape for rank 4 and the
\* unpacking ValueError for ranks 0 to 3, both at its head, before any
\* embedding; only a rank-5 call goes further.
C7_RankErrors ==
    /\ (pc = "failed" /\ call.rank = 4)
            => (res.err = UnsupportedShape /\ res.at = "rank" /\ call.x = <<>>)
    /\ (pc = "failed" /\ call.rank < 4)
            => (res.err = ValueError /\ res.at = "unpack" /\ call.x = <<>>)
    /\ pc \in {"embed", "cond", "blocks", "cfg", "done"} => call.rank = 5

C7_Witness == pc = "failed" /\ call.rank = 2 /\ res.err = ValueError

C9_AdaLNZero ==
    /\ Built => /\ \A i \in 1..cfg.depth :
                    /\ params.block_ada_w[i] = "zero"
                    /\ params.block_ada_b[i] = "zero"
                    /\ \A cv \in -2..2 : Modulation(params, i, cv) = 0
                /\ params.final_ada_w = "zero" /\ params.final_ada_b = "zero"
                /\ params.final_lin_w = "zero" /\ params.final_lin_b = "zero"
    /\ call.blk > 0 => call.xv = call.xin

C9_Witness == pc = "blocks" /\ call.blk = 2 /\ call.cv = 2 /\ call.xv = 1500

\* C10: LabelEmbedder.forward looks up num_classes in place of a label
\* exactly where force_drop_ids is given and is 1, or force_drop_ids is
\* absent, train is set, dropout_prob > 0 and the draw is below dropout_prob;
\* every other label is looked up as it is.  Without force_drop_ids nothing
\* is replaced at dropout_prob 0 and, in training, everything at 1.
C10_LabelDrop ==
    ycall.status # "none"
        => LET e == y_embedder
               forced(i) == ycall.force # <<>> /\ ycall.force[i] = 1
               dropped(i) == /\ ycall.force = <<>>
                             /\ ycall.train
                             /\ e.dropout_prob > 0
                             /\ ycall.draws[i] < e.dropout_prob
           IN  /\ \A i \in DOMAIN ycall.labels :
                    ycall.ids[i] = IF forced(i) \/ dropped(i) THEN e.num_classes
                                   ELSE ycall.labels[i]
               /\ (e.dropout_prob = 0 /\ ycall.force = <<>>) => ycall.ids = ycall.labels
               /\ (e.dropout_prob = ProbRes /\ ycall.train /\ ycall.force = <<>>)
                    => \A i \in DOMAIN ycall.ids : ycall.ids[i] = e.num_classes

C10_Witness ==
    /\ ycall.status = "returned"
    /\ ycall.force = <<>>
    /\ ycall.train
    /\ \E i, j \in DOMAIN ycall.ids :
        /\ ycall.ids[i] = y_embedder.num_classes
        /\ ycall.ids[j] = ycall.labels[j]
        /\ ycall.ids[j] # y_embedder.num_classes

\* the spatial patch of token s (from 0) of the 'b (t n) c' sequence of line
\* 405: its index within its frame
PatchIndex(c, s) == s % NumPatches(c)

\* C11: forward and forward_with_cfg write nothing on the model object:
\* while the model exists its attributes are those construction left; and a
\* rank-5 forward call that ends, ends as it would have ended alone, whatever
\* other call with another T ran in between.
C11_ForwardWritesNothing ==
    /\ Built => attrs = [out_channels |-> OutChannels(cfg),
                         num_patches |-> NumPatches(cfg), t |-> 0]
    /\ (Ended /\ call.rank = 5)
            => [res EXCEPT !.out = <<>>]
                    = AloneResult(cfg, imports, call.B, call.T, call.mask)

\* C12: in rotary mode, once a block ran, the rotary position of the query
\* and of the key of every token of the sequence is the token's spatial patch
\* index within its frame, so it is the same for the same patch of two
\* frames and differs between two patches of one frame; V is not rotated.
C12_RotaryIsSpatial ==
    (call.blk > 0 /\ cfg.attention_pe_mode = "2d_rope")
        => /\ \A s \in 1..call.x[2] :
                /\ call.rope_q[s] = PatchIndex(cfg, s - 1)
                /\ call.rope_k[s] = PatchIndex(cfg, s - 1)
           /\ call.rope_v = <<>>

\* C13: whatever LabelEmbedder.forward is called with, labels being below
\* num_classes, every id it looks up is below the number of rows of the
\* table (num_classes + 1 with dropout_prob > 0, num_classes without), and
\* num_classes itself is looked up only in a table that has that row.
C13_LookupInTable ==
    ycall.status # "none"
        => /\ y_embedder.rows = y_embedder.num_classes
                                    + (IF y_embedder.dropout_prob > 0 THEN 1 ELSE 0)
           /\ \A i \in DOMAIN ycall.ids :
                /\ ycall.ids[i] < y_embedder.rows
                /\ ycall.ids[i] = y_embedder.num_classes => y_embedder.dropout_prob > 0
           /\ ycall.status = "returned"

====
